---- MODULE Spec2Model ----
(***************************************************************************)
(* A model of src/main.py of tca-govulncheck: the toolchain check          *)
(* (Invocation.check / set_go), module discovery (Invocation.scan_path),   *)
(* the scan loop (Invocation.run) and the trace extractor                  *)
(* (Invocation.__vuln_handle).                                             *)
(*                                                                         *)
(* Text is a sequence of tokens.  Every token is one character, except the *)
(* two literals the parser looks for, which are kept whole: VULN stands    *)
(* for the 15 characters "Vulnerability #" and ETF for the 20 characters   *)
(* "Example traces found" (the marker is ETF followed by the colon, so a   *)
(* split on ":" sees the marker's own colon).  Offsets are counted in      *)
(* tokens; find, split, strip, slicing and the regular expression are      *)
(* computed on the token sequence as Python computes them on characters.   *)
(***************************************************************************)
EXTENDS Integers, Sequences, FiniteSets, TLC

VARIABLES
    pc,            \* position of the program
    environ,       \* os.environ: the variables check() and set_go() read and write
    go_probe,      \* what the `go version` subprocess does (external)
    go_version,    \* check(): local go_version
    set_go_calls,  \* how many times set_go() was entered
    manifests,     \* the directories of the tree that hold a go.mod (external)
    path_filters,  \* params["path_filters"]
    mod_path,      \* scan_path(): local mod_path, then the returned list
    scan_path,     \* run(): the roots the for loop has still to visit
    cwd,           \* run(): loop variable cwd
    process,       \* run(): the scanner subprocess of the current root
    outfile,       \* run(): the bytes captured from the subprocess
    issues,        \* run(): local issues
    result_json,   \* the file result.json
    runlog,        \* observation only: what happened to each root visited so far
    section,       \* __vuln_handle(): parameter section
    lines,         \* __vuln_handle(): section.splitlines()
    li,            \* __vuln_handle(): index of the line the for loop is at
    stat,          \* __vuln_handle(): local stat
    flag,          \* __vuln_handle(): local flag
    vh_issues      \* __vuln_handle(): local issues

vars == <<pc, environ, go_probe, go_version, set_go_calls, manifests, path_filters,
          mod_path, scan_path, cwd, process, outfile, issues, result_json, runlog,
          section, lines, li, stat, flag, vh_issues>>

checkVars == <<environ, go_probe, go_version, set_go_calls>>
discoverVars == <<manifests, path_filters, mod_path>>
runVars == <<scan_path, cwd, process, outfile, issues, result_json, runlog>>
handleVars == <<section, lines, li, stat, flag, vh_issues>>

(***************************************************************************)
(* Bounds of the model.                                                    *)
(***************************************************************************)
\* the longest section drawn, in lines
MaxLines == 4
\* the longest inclusion list drawn
MaxFilter == 2
\* the most sections in one captured output (run)
MaxSections == 2

(***************************************************************************)
(* Tokens.                                                                 *)
(***************************************************************************)
NL == "\n"
VULN == "Vulnerability #"
ETF == "Example traces found"
MARKER == <<ETF, ":">>
Digits == {"0", "1", "2", "3", "4", "5", "6", "7", "8", "9"}
Whitespace == {" ", NL}

Min(S) == CHOOSE m \in S : \A k \in S : m <= k

(***************************************************************************)
(* Python's str operations.                                                *)
(***************************************************************************)
\* sub occurs in s at the 1-based position i
OccursAt(s, sub, i) ==
    /\ i >= 1
    /\ i + Len(sub) - 1 <= Len(s)
    /\ \A k \in 1..Len(sub) : s[i + k - 1] = sub[k]

\* s.find(sub): the 0-based offset of the first occurrence, or -1
Find(s, sub) ==
    LET at == {i \in 1..Len(s) : OccursAt(s, sub, i)}
    IN  IF at = {} THEN -1 ELSE Min(at) - 1

\* s[a:b] for 0 <= a, 0 <= b
Slice(s, a, b) == SubSeq(s, a + 1, IF b < Len(s) THEN b ELSE Len(s))

\* s[a:]
SliceFrom(s, a) == SubSeq(s, a + 1, Len(s))

\* s.split(sep), sep not empty: cut at every occurrence, left to right
RECURSIVE Split(_, _)
Split(s, sep) ==
    LET i == Find(s, sep)
    IN  IF i = -1 THEN <<s>>
        ELSE <<SubSeq(s, 1, i)>> \o Split(SliceFrom(s, i + Len(sep)), sep)

\* s.splitlines(): cut at every line break; no empty last line
SplitLines(s) ==
    LET parts == Split(s, <<NL>>)
    IN  IF parts[Len(parts)] = <<>> THEN SubSeq(parts, 1, Len(parts) - 1) ELSE parts

\* s.replace(old, new): every occurrence, left to right, not overlapping
RECURSIVE Replace(_, _, _)
Replace(s, old, new) ==
    IF s = <<>> THEN <<>>
    ELSE IF OccursAt(s, old, 1)
         THEN new \o Replace(SliceFrom(s, Len(old)), old, new)
         ELSE <<Head(s)>> \o Replace(Tail(s), old, new)

\* s.strip()
RECURSIVE LStrip(_)
LStrip(s) == IF s # <<>> /\ Head(s) \in Whitespace THEN LStrip(Tail(s)) ELSE s

RECURSIVE RStrip(_)
RStrip(s) ==
    IF s # <<>> /\ s[Len(s)] \in Whitespace THEN RStrip(SubSeq(s, 1, Len(s) - 1)) ELSE s

Strip(s) == RStrip(LStrip(s))

\* os.path.join(a, p) (posixpath): an absolute p replaces a
Join(a, p) ==
    IF p # <<>> /\ Head(p) = "/" THEN p
    ELSE IF a = <<>> \/ a[Len(a)] = "/" THEN a \o p
    ELSE a \o <<"/">> \o p

\* the length of the run of digits of s that starts at the 1-based position i
RECURSIVE DigitRun(_, _)
DigitRun(s, i) == IF i <= Len(s) /\ s[i] \in Digits THEN 1 + DigitRun(s, i + 1) ELSE 0

\* VULN_RE.match(s): the end offset of the match of  Vulnerability #(\d+):  at the
\* start of s, or 0 when there is no match (a match ends at offset 3 or later)
VULN_RE_match(s) ==
    IF Len(s) >= 3 /\ s[1] = VULN /\ DigitRun(s, 2) >= 1
                   /\ 2 + DigitRun(s, 2) <= Len(s) /\ s[2 + DigitRun(s, 2)] = ":"
    THEN 2 + DigitRun(s, 2)
    ELSE 0

(***************************************************************************)
(* Values written to result.json.  JSON tells the number 0 from a string,  *)
(* so the line of an issue carries its JSON type.                          *)
(***************************************************************************)
\* the JSON number 0
JsonInt0 == [type |-> "int", val |-> <<"0">>]
\* a JSON string
JsonStr(s) == [type |-> "str", val |-> s]
RULE == "GO-Vulnerability"
GO_MOD == <<"go.mod">>

(***************************************************************************)
(* Invocation.__vuln_handle (lines 112-138).                               *)
(***************************************************************************)
\* lines 127-137 with every missing field read as empty instead of raising:
\* a line with two to four fields still appends an issue
TraceIssueLoose(line, cwd_, section_, stat_, end) ==
    LET infos == Split(line, <<":">>)
        fieldAt(k) == IF k <= Len(infos) THEN Strip(infos[k]) ELSE <<>>
    IN  IF Len(infos) >= 2
        THEN << [path   |-> Join(cwd_, fieldAt(2)),
                 rule   |-> RULE,
                 msg    |-> fieldAt(5) \o <<NL>> \o Slice(section_, stat_, end),
                 line   |-> JsonStr(fieldAt(3)),
                 column |-> JsonStr(fieldAt(4))] >>
        ELSE <<>>

\* The try block of lines 127-137 on one line: the issue appended, or nothing
\* when an index is missing (IndexError, caught by the bare except).
TraceIssue(line, cwd_, section_, stat_, end) ==
    LET infos == Split(line, <<":">>)
    IN  IF Len(infos) >= 5
        THEN << [path   |-> Join(cwd_, Strip(infos[2])),
                 rule   |-> RULE,
                 msg    |-> Strip(infos[5]) \o <<NL>> \o Slice(section_, stat_, end),
                 line   |-> JsonStr(Strip(infos[3])),
                 column |-> JsonStr(Strip(infos[4]))] >>
        ELSE <<>>

\* line 119: line.split(":")[1] on a header line raises IndexError when the line
\* has no second field (outside the try block)
HeaderRaises(line) == Len(Split(line, <<":">>)) < 2

\* One pass of the for loop of line 116 over `line`; st holds stat, flag, issues
\* and raised (an exception left the function).
VulnStep(st, line, cwd_, section_, end) ==
    IF VULN_RE_match(line) # 0
    THEN IF HeaderRaises(line)
         THEN [st EXCEPT !.raised = TRUE]
         ELSE [st EXCEPT !.stat = VULN_RE_match(line)]
    ELSE IF Find(line, MARKER) # -1
    THEN [st EXCEPT !.flag = TRUE]
    ELSE IF st.flag /\ st.stat # 0
    THEN [st EXCEPT !.issues = @ \o TraceIssue(line, cwd_, section_, st.stat, end)]
    ELSE st

RECURSIVE VulnLoop(_, _, _, _, _, _)
VulnLoop(st, ls, k, cwd_, section_, end) ==
    IF k > Len(ls) \/ st.raised THEN st
    ELSE VulnLoop(VulnStep(st, ls[k], cwd_, section_, end), ls, k + 1, cwd_, section_, end)

VulnStart == [stat |-> 0, flag |-> FALSE, issues |-> <<>>, raised |-> FALSE]

\* __vuln_handle(section, cwd, end) as a whole
vuln_handle(section_, cwd_, end) ==
    VulnLoop(VulnStart, SplitLines(section_), 1, cwd_, section_, end)

(***************************************************************************)
(* Invocation.run, the body of the loop over sections (lines 163-173).     *)
(***************************************************************************)
IsTraceSection(section_) == Find(section_, MARKER) # -1

IsSummarySection(section_) == ~IsTraceSection(section_) /\ VULN_RE_match(section_) # 0

\* lines 166-170 with a wrong slice: the whole section as the message
SummaryIssueWhole(section_, cwd_) ==
    [path |-> Join(cwd_, GO_MOD), rule |-> RULE, msg |-> section_, line |-> JsonInt0]

\* lines 166-170: the issue of a vulnerability summary section
SummaryIssue(section_, cwd_) ==
    LET rule_msg == SplitLines(section_)[1]
        stat_ == VULN_RE_match(rule_msg)
    IN  [path |-> Join(cwd_, GO_MOD), rule |-> RULE,
         msg |-> SliceFrom(section_, stat_), line |-> JsonInt0]

\* lines 167-168: splitlines()[0] and split(":")[1] raise IndexError when missing
SummaryRaises(section_) ==
    \/ SplitLines(section_) = <<>>
    \/ Len(Split(SplitLines(section_)[1], <<":">>)) < 2

\* what one section does to the run: the issues it adds, and whether an
\* exception leaves the loop
SectionResult(section_, cwd_) ==
    IF IsTraceSection(section_)
    THEN LET st == vuln_handle(section_, cwd_, Find(section_, MARKER))
         IN  [issues |-> IF st.raised THEN <<>> ELSE st.issues, raised |-> st.raised]
    ELSE IF VULN_RE_match(section_) # 0
    THEN IF SummaryRaises(section_)
         THEN [issues |-> <<>>, raised |-> TRUE]
         ELSE [issues |-> <<SummaryIssue(section_, cwd_)>>, raised |-> FALSE]
    ELSE [issues |-> <<>>, raised |-> FALSE]

(***************************************************************************)
(* The tree and the text the model draws its inputs from.                  *)
(***************************************************************************)
\* SOURCE_DIR (line 12)
source_dir == <<"/", "s">>
DirA == <<"/", "s", "/", "a">>
DirAB == <<"/", "s", "/", "a", "/", "b">>
\* the directories of the tree, in the order os.walk visits them
WalkDirs == <<source_dir, DirA, DirAB>>

\* "Vulnerability #1: a"
LineHeader == <<VULN, "1", ":", " ", "a">>
\* "  Example traces found:"
LineMarker == <<" ", ETF, ":">>
\* " #1: f.go:4:7: m"
LineTrace == <<" ", "#", "1", ":", " ", "f", ":", "4", ":", "7", ":", " ", "m">>
\* "#:/f::7:m": an absolute file and an empty line number
LineTraceNoLine == <<"#", ":", "/", "f", ":", ":", "7", ":", "m">>
\* "f:4:7": three fields
LineShort == <<"f", ":", "4", ":", "7">>
\* "a"
LinePlain == <<"a">>
LineTemplates == {LineHeader, LineMarker, LineTrace, LineTraceNoLine, LineShort, LinePlain}

RECURSIVE JoinWith(_, _)
JoinWith(parts, sep) ==
    IF parts = <<>> THEN <<>>
    ELSE IF Len(parts) = 1 THEN parts[1]
    ELSE parts[1] \o sep \o JoinWith(Tail(parts), sep)

\* the sections drawn: one to MaxLines lines, no blank line inside
Sections ==
    {JoinWith(ls, <<NL>>) : ls \in UNION {[1..n -> LineTemplates] : n \in 1..MaxLines}}

(***************************************************************************)
(* SpecParse: one section of the output of the root DirA goes through the  *)
(* body of the loop of line 162, __vuln_handle one line at a time.         *)
(***************************************************************************)
InitParse ==
    /\ pc = "section"
    /\ section \in Sections
    /\ cwd = DirA
    /\ issues = <<>>
    /\ lines = <<>> /\ li = 0 /\ stat = 0 /\ flag = FALSE /\ vh_issues = <<>>
    /\ environ = <<>> /\ go_probe = "none" /\ go_version = <<"0">> /\ set_go_calls = 0
    /\ manifests = {} /\ path_filters = <<>> /\ mod_path = <<>>
    /\ scan_path = <<>> /\ process = "none" /\ outfile = <<>>
    /\ result_json = <<>> /\ runlog = <<>>

\* what the parser leaves alone
ParseFrame ==
    UNCHANGED <<checkVars, discoverVars, scan_path, process, outfile, result_json, runlog>>

\* line 163-164: a trace section enters __vuln_handle (lines 113-116)
TraceSection ==
    /\ pc = "section"
    /\ IsTraceSection(section)
    /\ lines' = SplitLines(section)
    /\ li' = 1
    /\ stat' = VulnStart.stat /\ flag' = VulnStart.flag /\ vh_issues' = VulnStart.issues
    /\ pc' = "vuln_handle"
    /\ UNCHANGED <<section, cwd, issues>>
    /\ ParseFrame

\* lines 116-137: the loop body on the line at li
VulnLine ==
    /\ pc = "vuln_handle"
    /\ li <= Len(lines)
    /\ LET st == VulnStep([stat |-> stat, flag |-> flag, issues |-> vh_issues, raised |-> FALSE],
                          lines[li], cwd, section, Find(section, MARKER))
       IN  /\ stat' = st.stat /\ flag' = st.flag /\ vh_issues' = st.issues
           /\ pc' = IF st.raised THEN "raised" ELSE "vuln_handle"
    /\ li' = li + 1
    /\ UNCHANGED <<section, lines, cwd, issues>>
    /\ ParseFrame

\* line 138 and line 164: return issues; issues.extend(...)
VulnReturn ==
    /\ pc = "vuln_handle"
    /\ li > Len(lines)
    /\ issues' = issues \o vh_issues
    /\ pc' = "section_done"
    /\ UNCHANGED handleVars /\ UNCHANGED cwd
    /\ ParseFrame

\* lines 165-170: a vulnerability summary section
SummarySection ==
    /\ pc = "section"
    /\ IsSummarySection(section)
    /\ IF SummaryRaises(section)
       THEN pc' = "raised" /\ UNCHANGED issues
       ELSE pc' = "section_done" /\ issues' = Append(issues, SummaryIssue(section, cwd))
    /\ UNCHANGED handleVars /\ UNCHANGED cwd
    /\ ParseFrame

\* lines 171-173: any other section is printed
LogSection ==
    /\ pc = "section"
    /\ ~IsTraceSection(section)
    /\ VULN_RE_match(section) = 0
    /\ pc' = "section_done"
    /\ UNCHANGED handleVars /\ UNCHANGED <<cwd, issues>>
    /\ ParseFrame

NextParse == TraceSection \/ VulnLine \/ VulnReturn \/ SummarySection \/ LogSection

SpecParse == InitParse /\ [][NextParse]_vars

(***************************************************************************)
(* Invocation.scan_path (lines 38-53).                                     *)
(***************************************************************************)
\* the lists with the elements of the set S, each once, in any order
Orderings(S) ==
    {f \in [1..Cardinality(S) -> S] : \A i, j \in 1..Cardinality(S) : f[i] = f[j] => i = j}

Range(f) == {f[i] : i \in DOMAIN f}

\* lines 39-42: the directories with a go.mod, in walk order
WalkedRoots(manifests_) == SelectSeq(WalkDirs, LAMBDA d : d \in manifests_)

\* lines 39-45 without the fallback of lines 43-45
DiscoveredRootsNoFallback(manifests_) == WalkedRoots(manifests_)

\* lines 39-45: the directories with a go.mod in walk order, else [source_dir]
DiscoveredRoots(manifests_) ==
    IF WalkedRoots(manifests_) = <<>> THEN <<source_dir>> ELSE WalkedRoots(manifests_)

\* line 46: params["path_filters"].get("inclusion", [])
PathInclude(path_filters_) ==
    IF "inclusion" \in DOMAIN path_filters_ THEN path_filters_.inclusion ELSE <<>>

\* lines 48-50: os.path.join(source_dir, path.replace("/*", "")) of every entry
IncludeModPath(path_include) ==
    [index \in DOMAIN path_include |->
        Join(source_dir, Replace(path_include[index], <<"/", "*">>, <<>>))]

\* lines 38-53: the lists scan_path() can return (list(set) has no fixed order)
ScanPathResults(manifests_, path_filters_) ==
    LET mod_path_ == DiscoveredRoots(manifests_)
        path_include == PathInclude(path_filters_)
        common == Range(IncludeModPath(path_include)) \cap Range(mod_path_)
    IN  IF path_include # <<>> /\ common # {}
        THEN Orderings(common)
        ELSE {mod_path_}

\* the inclusion entries drawn:  a/*   a/*/b   a/b/*   b/*   /s   /*
FilterEntries ==
    { <<"a", "/", "*">>,
      <<"a", "/", "*", "/", "b">>,
      <<"a", "/", "b", "/", "*">>,
      <<"b", "/", "*">>,
      <<"/", "s">>,
      <<"/", "*">> }

\* params["path_filters"]: without the key, or with a list of up to n entries
PathFilters(n) ==
    {[other |-> <<>>]}
        \cup {[inclusion |-> f] : f \in UNION {[1..k -> FilterEntries] : k \in 0..n}}

(***************************************************************************)
(* SpecDiscover: scan_path() on every tree and filter drawn.               *)
(***************************************************************************)
InitDiscover ==
    /\ pc = "scan_path"
    /\ manifests \in SUBSET Range(WalkDirs)
    /\ path_filters \in PathFilters(MaxFilter)
    /\ mod_path = <<>>
    /\ environ = <<>> /\ go_probe = "none" /\ go_version = <<"0">> /\ set_go_calls = 0
    /\ scan_path = <<>> /\ cwd = <<>> /\ process = "none" /\ outfile = <<>>
    /\ issues = <<>> /\ result_json = <<>> /\ runlog = <<>>
    /\ section = <<>> /\ lines = <<>> /\ li = 0 /\ stat = 0 /\ flag = FALSE
    /\ vh_issues = <<>>

\* lines 38-53
ScanPathCall ==
    /\ pc = "scan_path"
    /\ mod_path' \in ScanPathResults(manifests, path_filters)
    /\ pc' = "scan_path_done"
    /\ UNCHANGED <<manifests, path_filters, checkVars, runVars, handleVars>>

NextDiscover == ScanPathCall

SpecDiscover == InitDiscover /\ [][NextDiscover]_vars

(***************************************************************************)
(* Invocation.check and Invocation.set_go (lines 55-110).                  *)
(***************************************************************************)
\* a byte that is not valid UTF-8
BAD == "\\xff"

\* bytes.decode("utf-8") raises UnicodeDecodeError
DecodeRaises(bytes) == \E k \in 1..Len(bytes) : bytes[k] = BAD

\* re.search(r"go(\d+\.\d+)", s): the positions of "go" followed by digits, a
\* dot and digits ("go" is kept as one token)
GoMatchesAt(s, i) ==
    /\ i <= Len(s) /\ s[i] = "go"
    /\ DigitRun(s, i + 1) >= 1
    /\ i + 1 + DigitRun(s, i + 1) <= Len(s)
    /\ s[i + 1 + DigitRun(s, i + 1)] = "."
    /\ DigitRun(s, i + 2 + DigitRun(s, i + 1)) >= 1

\* match.group(1) of the first match
GoMatchGroup(s) ==
    LET i == Min({k \in 1..Len(s) : GoMatchesAt(s, k)})
        a == DigitRun(s, i + 1)
        b == DigitRun(s, i + 2 + a)
    IN  SubSeq(s, i + 1, i + 1 + a + b)

\* lines 74-94: go_version after the probe.  probe.spawned is FALSE when Popen
\* raises; every exception is caught and leaves "0".
ProbedVersion(probe) ==
    IF ~probe.spawned THEN <<"0">>
    ELSE IF DecodeRaises(probe.output) THEN <<"0">>
    ELSE IF SplitLines(probe.output) = <<>> THEN <<"0">>
    ELSE LET go_line == SplitLines(probe.output)[1]
         IN  IF \E k \in 1..Len(go_line) : GoMatchesAt(go_line, k)
             THEN GoMatchGroup(go_line)
             ELSE <<"0">>

\* str.lower() on the values of GOVULNCHECK_MODEL drawn
Lower(m) ==
    CASE m = "AUTO" -> "auto"
      [] m = "Off"  -> "off"
      [] m = "OFF"  -> "off"
      [] m = "On"   -> "on"
      [] OTHER      -> m

\* line 95: os.environ.get("GOVULNCHECK_MODEL", "auto")
Model(environ_) ==
    IF "GOVULNCHECK_MODEL" \in DOMAIN environ_ THEN environ_.GOVULNCHECK_MODEL ELSE "auto"

\* lines 96-99 with the second branch dropped
CallsSetGoAutoOnly(model, go_version_) ==
    Lower(model) = "auto" /\ go_version_ = <<"0">>

\* lines 96-99: whether check() calls set_go()
CallsSetGo(model, go_version_) ==
    \/ Lower(model) = "auto" /\ go_version_ = <<"0">>
    \/ Lower(model) = "off"

\* lines 56-58: set_go() returns at once
SetGoDeclines(environ_) ==
    \/ "GO_1_21_8_HOME" \notin DOMAIN environ_
    \/ environ_.GO_1_21_8_HOME = <<>>

\* line 60: os.environ["PATH"] raises KeyError
SetGoRaises(environ_) == ~SetGoDeclines(environ_) /\ "PATH" \notin DOMAIN environ_

\* f with f[k] = v, k added to the domain when missing
Put(f, k, v) == [x \in DOMAIN f \cup {k} |-> IF x = k THEN v ELSE f[x]]

\* lines 55-68: os.environ after set_go()
SetGo(environ_) ==
    IF SetGoDeclines(environ_) \/ SetGoRaises(environ_) THEN environ_
    ELSE LET go_home == environ_.GO_1_21_8_HOME
         IN  Put(Put(Put(environ_,
                 "PATH", environ_.PATH \o <<":">> \o Join(go_home, <<"bin">>)),
                 "GOROOT", go_home),
                 "GOPATH", Join(go_home, <<"go">>))

\* what `go version` does: Popen fails, or it writes these bytes
GoProbes ==
    { [spawned |-> FALSE, output |-> <<>>],
      [spawned |-> TRUE,  output |-> <<>>],
      [spawned |-> TRUE,  output |-> <<BAD>>],
      [spawned |-> TRUE,  output |-> <<"go", ":", " ", "x", NL>>],
      [spawned |-> TRUE,  output |-> <<"x", NL, "go", "1", ".", "2", "1", NL>>],
      [spawned |-> TRUE,  output |->
          <<"go", " ", "version", " ", "go", "1", ".", "2", "1", ".", "8", " ", "x", NL>>] }

ModelValues == {"auto", "AUTO", "off", "Off", "OFF", "on"}
GoHomes == {<<>>, <<"/", "g", "o">>}
UsrBin == <<"/", "b", "i", "n">>

\* the environments drawn: every variable set or not
Environs ==
    LET pick(k, vals) == {<<>>} \cup {[x \in {k} |-> v] : v \in vals}
        merge(f, g) == [x \in DOMAIN f \cup DOMAIN g |-> IF x \in DOMAIN f THEN f[x] ELSE g[x]]
    IN  { merge(merge(merge(m, h), pth), r) :
            m \in pick("GOVULNCHECK_MODEL", ModelValues),
            h \in pick("GO_1_21_8_HOME", GoHomes),
            pth \in pick("PATH", {UsrBin}),
            r \in pick("GOROOT", {<<"/", "r">>}) }

(***************************************************************************)
(* SpecCheck: check() in every environment drawn.                          *)
(***************************************************************************)
InitCheck ==
    /\ pc = "check"
    /\ environ \in Environs
    /\ go_probe \in GoProbes
    /\ go_version = <<"0">>
    /\ set_go_calls = 0
    /\ manifests = {} /\ path_filters = <<>> /\ mod_path = <<>>
    /\ scan_path = <<>> /\ cwd = <<>> /\ process = "none" /\ outfile = <<>>
    /\ issues = <<>> /\ result_json = <<>> /\ runlog = <<>>
    /\ section = <<>> /\ lines = <<>> /\ li = 0 /\ stat = 0 /\ flag = FALSE
    /\ vh_issues = <<>>

CheckFrame == UNCHANGED <<discoverVars, runVars, handleVars>>

\* lines 74-94: run `go version` and parse its first line
ProbeGo ==
    /\ pc = "check"
    /\ go_version' = ProbedVersion(go_probe)
    /\ pc' = "model"
    /\ UNCHANGED <<environ, go_probe, set_go_calls>>
    /\ CheckFrame

\* lines 95-99: the mode decides, and set_go() runs
UseBundledGo ==
    /\ pc = "model"
    /\ CallsSetGo(Model(environ), go_version)
    /\ set_go_calls' = set_go_calls + 1
    /\ environ' = SetGo(environ)
    /\ pc' = IF SetGoRaises(environ) THEN "raised" ELSE "tool_version"
    /\ UNCHANGED <<go_probe, go_version>>
    /\ CheckFrame

\* lines 95-99: neither branch is taken
KeepSystemGo ==
    /\ pc = "model"
    /\ ~CallsSetGo(Model(environ), go_version)
    /\ pc' = "tool_version"
    /\ UNCHANGED checkVars
    /\ CheckFrame

\* lines 100-110: govulncheck -version is run and its output printed
ToolVersion ==
    /\ pc = "tool_version"
    /\ pc' = "check_done"
    /\ UNCHANGED checkVars
    /\ CheckFrame

NextCheck == ProbeGo \/ UseBundledGo \/ KeepSystemGo \/ ToolVersion

SpecCheck == InitCheck /\ [][NextCheck]_vars

(***************************************************************************)
(* Invocation.run (lines 141-177).                                         *)
(***************************************************************************)
\* lines 162-173 over the sections from the k-th on: the issues added to the
\* list until the loop ends or an exception leaves it
RECURSIVE SectionsResult(_, _, _)
SectionsResult(sections, k, cwd_) ==
    IF k > Len(sections) THEN [issues |-> <<>>, raised |-> FALSE]
    ELSE LET r == SectionResult(sections[k], cwd_)
         IN  IF r.raised THEN r
             ELSE LET rest == SectionsResult(sections, k + 1, cwd_)
                  IN  [issues |-> r.issues \o rest.issues, raised |-> rest.raised]

\* lines 162-173: output.split("\n\n") and the loop over the sections
OutputResult(output, cwd_) == SectionsResult(Split(output, <<NL, NL>>), 1, cwd_)

\* line 174: whether `except UnicodeEncodeError` catches an exception of class
\* exc (UnicodeDecodeError is no subclass of UnicodeEncodeError)
ExceptCatches(exc) == exc = "UnicodeEncodeError"

\* the sections a scanner writes in the runs modelled: a banner, a
\* vulnerability summary, a vulnerability with a trace
RunSections ==
    { LinePlain,
      JoinWith(<<LineHeader, LinePlain>>, <<NL>>),
      JoinWith(<<LineHeader, LineMarker, LineTrace>>, <<NL>>) }

\* the bytes a scanner that exits writes: up to n sections with blank lines
\* between them and a final line break, or bytes that are not UTF-8
ScannerOutputs(n) ==
    {<<>>, <<BAD>>, <<VULN, "1", ":", BAD, NL>>}
        \cup {JoinWith(secs, <<NL, NL>>) \o <<NL>> :
                secs \in UNION {[1..k -> RunSections] : k \in 1..n}}

\* the bytes captured from a scanner killed while writing: any prefix
PartialOutputs ==
    UNION {{SubSeq(out, 1, k) : k \in 0..Len(out)} : out \in ScannerOutputs(1)}

\* result.json before the run: missing, or left by an earlier run
StaleReport == <<[path |-> <<"old">>, rule |-> RULE, msg |-> <<>>, line |-> JsonInt0]>>
NoFile == [exists |-> FALSE, content |-> <<>>, writes |-> 0]
OldFile == [exists |-> TRUE, content |-> StaleReport, writes |-> 0]

(***************************************************************************)
(* Spec: run() from its first line to the write of result.json.  The       *)
(* timeout of line 152 is taken to be a number (int() does not raise) and  *)
(* Popen to start the scanner; the trees drawn hold at most two go.mod.    *)
(***************************************************************************)
Init ==
    /\ pc = "run"
    /\ manifests \in SUBSET {source_dir, DirA}
    /\ path_filters \in PathFilters(0) \cup {[inclusion |-> <<<<"a", "/", "*">>>>]}
    /\ result_json \in {NoFile, OldFile}
    /\ mod_path = <<>> /\ scan_path = <<>> /\ cwd = <<>>
    /\ process = "none" /\ outfile = <<>> /\ issues = <<>> /\ runlog = <<>>
    /\ environ = <<>> /\ go_probe = "none" /\ go_version = <<"0">> /\ set_go_calls = 0
    /\ section = <<>> /\ lines = <<>> /\ li = 0 /\ stat = 0 /\ flag = FALSE
    /\ vh_issues = <<>>

RunFrame == UNCHANGED <<checkVars, manifests, path_filters, handleVars>>

\* lines 142-146: issues = [] and scan_path = self.scan_path()
RunStart ==
    /\ pc = "run"
    /\ issues' = <<>>
    /\ \E r \in ScanPathResults(manifests, path_filters) :
          mod_path' = r /\ scan_path' = r
    /\ pc' = "for"
    /\ UNCHANGED <<cwd, process, outfile, result_json, runlog>>
    /\ RunFrame

\* lines 147-150: the next root; the scanner is started in it
StartScan ==
    /\ pc = "for"
    /\ scan_path # <<>>
    /\ cwd' = Head(scan_path)
    /\ scan_path' = Tail(scan_path)
    /\ process' = "running"
    /\ outfile' = <<>>
    /\ pc' = "wait"
    /\ UNCHANGED <<mod_path, issues, result_json, runlog>>
    /\ RunFrame

\* lines 151-153, 157: the scanner exits within the timeout
ScanExits ==
    /\ pc = "wait"
    /\ \E out \in ScannerOutputs(MaxSections) : outfile' = out
    /\ process' = "exited"
    /\ pc' = "read"
    /\ UNCHANGED <<mod_path, scan_path, cwd, issues, result_json, runlog>>
    /\ RunFrame

\* lines 154-157: TimeoutExpired; the scanner is killed and waited for
ScanTimesOut ==
    /\ pc = "wait"
    /\ \E out \in PartialOutputs : outfile' = out
    /\ process' = "killed"
    /\ pc' = "read"
    /\ UNCHANGED <<mod_path, scan_path, cwd, issues, result_json, runlog>>
    /\ RunFrame

\* lines 158-175: the captured bytes are decoded and every section handled
ReadOutput ==
    /\ pc = "read"
    /\ LET undecodable == DecodeRaises(outfile)
           r == IF undecodable THEN [issues |-> <<>>, raised |-> FALSE]
                ELSE OutputResult(outfile, cwd)
           leaves == \/ undecodable /\ ~ExceptCatches("UnicodeDecodeError")
                     \/ r.raised /\ ~ExceptCatches("IndexError")
       IN  /\ issues' = issues \o r.issues
           /\ pc' = IF leaves THEN "raised" ELSE "for"
           /\ runlog' = Append(runlog, [cwd       |-> cwd,
                                        timed_out |-> process = "killed",
                                        out       |-> outfile,
                                        added     |-> r.issues,
                                        raised    |-> leaves])
    /\ UNCHANGED <<mod_path, scan_path, cwd, process, outfile, result_json>>
    /\ RunFrame

\* lines 176-177: after the last root result.json is opened with "w" and the
\* list dumped
WriteReport ==
    /\ pc = "for"
    /\ scan_path = <<>>
    /\ result_json' = [exists |-> TRUE, content |-> issues,
                       writes |-> result_json.writes + 1]
    /\ pc' = "done"
    /\ UNCHANGED <<mod_path, scan_path, cwd, process, outfile, issues, runlog>>
    /\ RunFrame

Next == RunStart \/ StartScan \/ ScanExits \/ ScanTimesOut \/ ReadOutput \/ WriteReport

Spec == Init /\ [][Next]_vars

(***************************************************************************)
(* Claims about the output parser, under SpecParse.                        *)
(***************************************************************************)
\* s is a decimal number
IsNumber(s) == s # <<>> /\ \A k \in 1..Len(s) : s[k] \in Digits

\* l is a "Vulnerability #<N>:" header line; l holds the trace marker
IsHeaderLine(l) == \E d \in 1..Len(l) :
    /\ d + 2 <= Len(l)
    /\ l[1] = VULN
    /\ \A k \in 2..(d + 1) : l[k] \in Digits
    /\ l[d + 2] = ":"
IsMarkerLine(l) == \E i \in 1..Len(l) : OccursAt(l, MARKER, i)

\* the offset in the section at which its j-th line starts
RECURSIVE LineOffset(_, _)
LineOffset(ls, j) == IF j = 1 THEN 0 ELSE LineOffset(ls, j - 1) + Len(ls[j - 1]) + 1

\* the offset in the section just after the header that opens the header line l
HeaderLength(l) == Min({d \in 1..Len(l) : l[d] = ":"})

\* C6: a section without the trace marker that starts with a header emits exactly
\* one issue: path = root/go.mod, rule GO-Vulnerability, line 0, no column, msg = the
\* section after the header; a section with neither marker nor header emits none.
C6_SectionClassification ==
    ~IsTraceSection(section) =>
        /\ pc # "raised"
        /\ pc = "section_done" =>
              IF IsHeaderLine(section)
              THEN issues = << [path |-> cwd \o <<"/">> \o GO_MOD,
                                rule |-> "GO-Vulnerability",
                                msg  |-> SubSeq(section, HeaderLength(section) + 1, Len(section)),
                                line |-> JsonInt0] >>
              ELSE issues = <<>>

C6_Witness ==
    /\ pc = "section_done"
    /\ ~IsTraceSection(section)
    /\ IsHeaderLine(section)
    /\ Len(SplitLines(section)) = 3
    /\ Len(issues) = 1

\* what C7 says of the i-th line of a trace section: whether it yields an issue,
\* and the issue
ClaimYields(ls, i) ==
    /\ ~IsHeaderLine(ls[i]) /\ ~IsMarkerLine(ls[i])
    /\ \E j \in 1..(i - 1) : IsHeaderLine(ls[j])
    /\ \E k \in 1..(i - 1) : IsMarkerLine(ls[k])
    /\ Len(Split(ls[i], <<":">>)) >= 5

ClaimIssue(sec, ls, i, root) ==
    LET f == Split(ls[i], <<":">>)
        j == CHOOSE h \in 1..(i - 1) :
                /\ IsHeaderLine(ls[h])
                /\ \A g \in (h + 1)..(i - 1) : ~IsHeaderLine(ls[g])
        headerEnd == LineOffset(ls, j) + HeaderLength(ls[j])
    IN  [path   |-> Join(root, Strip(f[2])),
         line   |-> JsonStr(Strip(f[3])),
         column |-> JsonStr(Strip(f[4])),
         rule   |-> "GO-Vulnerability",
         msg    |-> Strip(f[5]) \o <<NL>> \o Slice(sec, headerEnd, Find(sec, MARKER))]

RECURSIVE ClaimIssues(_, _, _, _)
ClaimIssues(sec, ls, i, root) ==
    IF i > Len(ls) THEN <<>>
    ELSE (IF ClaimYields(ls, i) THEN <<ClaimIssue(sec, ls, i, root)>> ELSE <<>>)
         \o ClaimIssues(sec, ls, i + 1, root)

\* C7: in a trace section a line yields an issue iff a header line and the marker
\* line both occur earlier and the line has at least five ":"-fields; the issue
\* is built from fields 2 to 5 and msg ends with the section text between the end
\* of the last header and the marker.  (Header and marker lines are control
\* lines; fields are trimmed and a line break joins the two parts of msg.)
C7_TraceExtractor ==
    (pc = "section_done" /\ IsTraceSection(section)) =>
        issues = ClaimIssues(section, SplitLines(section), 1, cwd)

\* C8: a line of a trace section with fewer than five ":"-fields adds no issue
\* and raises nothing: the issue lists are unchanged by it and the loop goes on to
\* the next line.
C8_ShortLineIgnored ==
    [][(pc = "vuln_handle" /\ li <= Len(lines) /\ Len(Split(lines[li], <<":">>)) < 5)
        => (vh_issues' = vh_issues /\ issues' = issues
            /\ pc' = "vuln_handle" /\ li' = li + 1)]_vars

C8_Witness ==
    /\ pc = "vuln_handle"
    /\ li >= 2 /\ li <= Len(lines)
    /\ flag /\ stat # 0
    /\ lines[li - 1] = LineShort
    /\ lines[li] = LineTrace

\* C9: every issue has a non-empty path and rule, and its line is the number 0
\* whenever the output gave no line number for it (the line-number field of the
\* trace line is empty or not a number).
C9_IssueInvariant ==
    \A i \in 1..Len(issues) :
        /\ issues[i].path # <<>>
        /\ issues[i].rule # ""
        /\ (issues[i].line.type = "str" /\ ~IsNumber(issues[i].line.val))
              => issues[i].line = JsonInt0

(***************************************************************************)
(* Claims about module discovery, under SpecDiscover.                      *)
(***************************************************************************)
\* the entry with its trailing "/*" stripped
StripTrailingGlob(p) ==
    IF Len(p) >= 2 /\ p[Len(p) - 1] = "/" /\ p[Len(p)] = "*"
    THEN SubSeq(p, 1, Len(p) - 2)
    ELSE p

\* D: the discovered module roots
ClaimD == IF manifests = {} THEN {source_dir} ELSE manifests

\* F: the source directory joined with each entry, its trailing "/*" stripped
ClaimF ==
    {Join(source_dir, StripTrailingGlob(path_filters.inclusion[k])) :
        k \in 1..Len(path_filters.inclusion)}

\* C4: with a non-empty inclusion filter scan_path() returns F \cap D when that
\* is not empty and D otherwise, as a set; without a filter it returns all of D.
C4_InclusionFilter ==
    pc = "scan_path_done" =>
        IF "inclusion" \in DOMAIN path_filters /\ path_filters.inclusion # <<>>
        THEN Range(mod_path) = (IF ClaimF \cap ClaimD # {} THEN ClaimF \cap ClaimD ELSE ClaimD)
        ELSE Range(mod_path) = ClaimD

\* C5: for a tree without any go.mod scan_path() returns exactly one root, the
\* source directory, whatever the inclusion filter is.
C5_NoManifestSingleRoot ==
    (pc = "scan_path_done" /\ manifests = {}) => mod_path = <<source_dir>>

C5_Witness ==
    /\ pc = "scan_path_done"
    /\ manifests = {}
    /\ "inclusion" \in DOMAIN path_filters
    /\ Len(path_filters.inclusion) = 2
    /\ path_filters.inclusion[2] = source_dir
    /\ mod_path = <<source_dir>>

(***************************************************************************)
(* Claims about the toolchain check, under SpecCheck.                      *)
(***************************************************************************)
\* the probe found a system Go: it ran and the first line of its output holds
\* "go" followed by <digits>.<digits>
GoDetected ==
    /\ go_probe.spawned
    /\ \A k \in 1..Len(go_probe.output) : go_probe.output[k] # BAD
    /\ \E i \in 1..Len(go_probe.output) :
          /\ \A k \in 1..i : go_probe.output[k] # NL
          /\ go_probe.output[i] = "go"
          /\ \E a, b \in 1..Len(go_probe.output) :
                /\ i + a + 1 + b <= Len(go_probe.output)
                /\ \A k \in (i + 1)..(i + a) : go_probe.output[k] \in Digits
                /\ go_probe.output[i + a + 1] = "."
                /\ \A k \in (i + a + 2)..(i + a + 1 + b) : go_probe.output[k] \in Digits

ModeIs(m) ==
    LET v == IF "GOVULNCHECK_MODEL" \in DOMAIN environ THEN environ.GOVULNCHECK_MODEL
             ELSE "auto"
    IN  CASE m = "auto" -> v \in {"auto", "AUTO"}
          [] m = "off"  -> v \in {"off", "Off", "OFF"}

HomeUnset == "GO_1_21_8_HOME" \notin DOMAIN environ

SetGoAttempted == set_go_calls' = set_go_calls + 1

\* C10 as stated: the override is attempted whenever no system Go was detected or
\* the mode is "off", for every value of the mode; it is not attempted when a Go
\* was detected and the mode is "auto"; attempted with the home variable unset it
\* leaves the environment unchanged and raises nothing.
C10_OverrideWheneverNoGo ==
    [][pc = "model" =>
        /\ (~GoDetected \/ ModeIs("off")) => SetGoAttempted
        /\ (GoDetected /\ ModeIs("auto")) => ~SetGoAttempted
        /\ (SetGoAttempted /\ HomeUnset) => (environ' = environ /\ pc' # "raised")]_vars

\* C10 amended: the override is attempted exactly when the mode is "off", or the
\* mode is "auto" and no system Go was detected (mode compared in lower case,
\* "auto" when unset); with any other mode it is never attempted.  Attempted with
\* the home variable unset it leaves the environment unchanged and raises nothing.
C10_OverrideByMode ==
    [][pc = "model" =>
        /\ SetGoAttempted <=> (ModeIs("off") \/ (ModeIs("auto") /\ ~GoDetected))
        /\ ~SetGoAttempted => set_go_calls' = set_go_calls
        /\ (SetGoAttempted /\ HomeUnset) => (environ' = environ /\ pc' # "raised")]_vars

C10_Witness ==
    /\ pc = "tool_version"
    /\ set_go_calls = 1
    /\ HomeUnset
    /\ GoDetected
    /\ ModeIs("off")
    /\ "PATH" \in DOMAIN environ /\ environ.PATH = UsrBin

(***************************************************************************)
(* Claims about the scan loop, under Spec.                                 *)
(***************************************************************************)
\* the issues of the roots k.. of the log, in the order they were visited
RECURSIVE AddedFrom(_, _)
AddedFrom(log, k) == IF k > Len(log) THEN <<>> ELSE log[k].added \o AddedFrom(log, k + 1)

\* the run has ended with every root visited and their issues in result.json
ReportComplete ==
    /\ Len(runlog) = Len(mod_path)
    /\ \A k \in 1..Len(runlog) : runlog[k].cwd = mod_path[k]
    /\ result_json.exists
    /\ result_json.content = AddedFrom(runlog, 1)

RunEnded == pc \in {"done", "raised"}

\* C1: a root whose scanner exceeds the timeout is killed and adds no issue,
\* whatever was captured before the kill, and the roots after it are still
\* scanned and reported.
C1_TimeoutAddsNoIssue ==
    /\ (pc = "read" /\ process = "killed") => outfile \in PartialOutputs
    /\ \A k \in 1..Len(runlog) : runlog[k].timed_out => runlog[k].added = <<>>
    /\ (RunEnded /\ \E k \in 1..Len(runlog) : runlog[k].timed_out) => ReportComplete

\* C2: when the bytes captured for a root cannot be decoded the failure is
\* caught: the root adds no issue, the other roots are scanned and the report
\* is written.
C2_DecodeFailureCaught ==
    /\ \A k \in 1..Len(runlog) :
          DecodeRaises(runlog[k].out) => (runlog[k].added = <<>> /\ ~runlog[k].raised)
    /\ (RunEnded /\ \E k \in 1..Len(runlog) : DecodeRaises(runlog[k].out)) => ReportComplete

\* C3: every run ends by writing result.json once, after the last root, with the
\* whole list of issues, whatever was there before and whatever each root did.
C3_ReportWrittenOnce ==
    /\ pc # "raised"
    /\ pc # "done" => result_json \in {NoFile, OldFile}
    /\ pc = "done" =>
          /\ result_json.writes = 1
          /\ result_json.content = issues
          /\ ReportComplete
====
